---------------------------- MODULE Spec2Model ----------------------------
(***************************************************************************)
(* Startup and lifecycle layer of the ncdns DNS front-end                   *)
(* (server/server.go): configuration normalisation, DNSSEC key loading,    *)
(* socket acquisition in New, the two serve goroutines and the WaitGroup   *)
(* readiness barrier of Start, and Stop.                                   *)
(*                                                                         *)
(* Strings are tuples of one-character strings, so that strings.Split,     *)
(* dns.Fqdn and net.ParseIP are computed character by character.           *)
(***************************************************************************)
EXTENDS Integers, Sequences, FiniteSets, TLC

(***************************************************************************)
(* Bounds of the model.                                                    *)
(***************************************************************************)
\* New may be called this many times (a failed New may be retried).
MaxAttempts == 2
\* Each serve loop answers at most this many queries.
MaxQueries == 1
\* Stop is called at most this many times.
MaxStops == 2
\* A raw comma-separated list holds at most this many tokens (SpecNorm).
MaxTokens == 3

(***************************************************************************)
(* Strings.                                                                *)
(***************************************************************************)
EmptyStr == <<>>

\* strings.Split(s, ","): the substrings between the commas; Split("") is
\* the one-element list holding the empty string.
RECURSIVE Split(_)
Split(str) ==
  IF \E i \in 1..Len(str) : str[i] = ","
  THEN LET i == CHOOSE j \in 1..Len(str) :
                  /\ str[j] = ","
                  /\ \A k \in 1..(j - 1) : str[k] # ","
       IN  <<SubSeq(str, 1, i - 1)>> \o Split(SubSeq(str, i + 1, Len(str)))
  ELSE <<str>>

\* dns.IsFqdn: a name is fully qualified when it ends in a dot that is not
\* escaped: the dot is escaped when an odd number of backslashes precedes
\* it.
IsFqdn(str) ==
  IF Len(str) = 0 \/ str[Len(str)] # "." THEN FALSE
  ELSE LET s1 == SubSeq(str, 1, Len(str) - 1)
       IN  IF Len(s1) = 0 \/ s1[Len(s1)] # "\\" THEN TRUE
           ELSE LET nb == {j \in 1..Len(s1) : s1[j] # "\\"}
                    i  == IF nb = {} THEN -1
                          ELSE (CHOOSE j \in nb : \A k \in nb : k <= j) - 1
                IN  (Len(s1) - i) % 2 # 0

\* Mutant of Fqdn: a dot is appended to every name.
FqdnAppendsDot(str) == Append(str, ".")

\* dns.Fqdn returns the name itself when it is fully qualified, the name
\* plus "." otherwise.
Fqdn(str) == IF IsFqdn(str) THEN str ELSE Append(str, ".")

(***************************************************************************)
(* net.ParseIP.  An IP is a tuple of 16 bytes; NilIP is the nil slice.     *)
(***************************************************************************)
NilIP == <<>>

DecDigits == <<"0", "1", "2", "3", "4", "5", "6", "7", "8", "9">>
HexLower  == <<"a", "b", "c", "d", "e", "f">>
HexUpper  == <<"A", "B", "C", "D", "E", "F">>

IsDec(c) == \E i \in 1..Len(DecDigits) : DecDigits[i] = c
DecVal(c) == (CHOOSE i \in 1..Len(DecDigits) : DecDigits[i] = c) - 1
IsHex(c) ==
  \/ IsDec(c)
  \/ \E i \in 1..Len(HexLower) : HexLower[i] = c \/ HexUpper[i] = c
HexVal(c) ==
  IF IsDec(c) THEN DecVal(c)
  ELSE 9 + (CHOOSE i \in 1..Len(HexLower) : HexLower[i] = c \/ HexUpper[i] = c)

\* dtoi / xtoi: <<value, characters consumed, ok>>; the value saturates at
\* 0xFFFFFF, and a number with no digit is not ok.
RECURSIVE dtoiFrom(_, _, _)
dtoiFrom(str, i, n) ==
  IF i < Len(str) /\ IsDec(str[i + 1])
  THEN LET n2 == n * 10 + DecVal(str[i + 1])
       IN  IF n2 >= 16777215 THEN <<16777215, i, FALSE>>
           ELSE dtoiFrom(str, i + 1, n2)
  ELSE IF i = 0 THEN <<0, 0, FALSE>> ELSE <<n, i, TRUE>>

dtoi(str) == dtoiFrom(str, 0, 0)

RECURSIVE xtoiFrom(_, _, _)
xtoiFrom(str, i, n) ==
  IF i < Len(str) /\ IsHex(str[i + 1])
  THEN LET n2 == n * 16 + HexVal(str[i + 1])
       IN  IF n2 >= 16777215 THEN <<0, i, FALSE>>
           ELSE xtoiFrom(str, i + 1, n2)
  ELSE IF i = 0 THEN <<0, i, FALSE>> ELSE <<n, i, TRUE>>

xtoi(str) == xtoiFrom(str, 0, 0)

Tail_(str, c) == SubSeq(str, c + 1, Len(str))

\* parseIPv4: four decimal octets 0..255 separated by dots, no leading
\* zero, nothing after them; <<>> when the string is no such thing.
RECURSIVE v4Octets(_, _, _)
v4Octets(str, i, p) ==
  IF i = 4 THEN (IF Len(str) # 0 THEN <<>> ELSE p)
  ELSE IF Len(str) = 0 THEN <<>>
  ELSE IF i > 0 /\ str[1] # "." THEN <<>>
  ELSE LET s1 == IF i > 0 THEN Tail_(str, 1) ELSE str
           r  == dtoi(s1)
       IN  IF ~r[3] \/ r[1] > 255 THEN <<>>
           ELSE IF r[2] > 1 /\ s1[1] = "0" THEN <<>>
           ELSE v4Octets(Tail_(s1, r[2]), i + 1, Append(p, r[1]))

\* IPv4(a, b, c, d): the 16-byte IPv4-in-IPv6 form.
IPv4(p) == <<0, 0, 0, 0, 0, 0, 0, 0, 0, 0, 255, 255>> \o p

parseIPv4(str) ==
  LET p == v4Octets(str, 0, <<>>) IN IF p = <<>> THEN NilIP ELSE IPv4(p)

\* The tail of parseIPv6: the bytes parsed so far expanded around the
\* ellipsis (-1: none) to 16 bytes.
v6Expand(ip, ellipsis) ==
  IF Len(ip) < 16
  THEN IF ellipsis < 0 THEN NilIP
       ELSE SubSeq(ip, 1, ellipsis)
              \o [j \in 1..(16 - Len(ip)) |-> 0]
              \o SubSeq(ip, ellipsis + 1, Len(ip))
  ELSE IF ellipsis >= 0 THEN NilIP ELSE ip

\* The loop of parseIPv6: hexadecimal groups followed by colons, at most
\* one "::", possibly a trailing dotted IPv4 address.
RECURSIVE v6Loop(_, _, _)
v6Loop(str, ip, ellipsis) ==
  IF Len(ip) >= 16 THEN (IF Len(str) # 0 THEN NilIP ELSE v6Expand(ip, ellipsis))
  ELSE
  LET r == xtoi(str)
      n == r[1]
      c == r[2]
  IN  IF ~r[3] \/ n > 65535 THEN NilIP
      ELSE IF c < Len(str) /\ str[c + 1] = "."
      THEN IF ellipsis < 0 /\ Len(ip) # 12 THEN NilIP
           ELSE IF Len(ip) + 4 > 16 THEN NilIP
           ELSE LET ip4 == parseIPv4(str)
                IN  IF ip4 = NilIP THEN NilIP
                    ELSE v6Expand(ip \o SubSeq(ip4, 13, 16), ellipsis)
      ELSE LET ip2 == ip \o <<n \div 256, n % 256>>
               s2  == Tail_(str, c)
           IN  IF Len(s2) = 0 THEN v6Expand(ip2, ellipsis)
               ELSE IF s2[1] # ":" \/ Len(s2) = 1 THEN NilIP
               ELSE LET s3 == Tail_(s2, 1)
                    IN  IF s3[1] = ":"
                        THEN IF ellipsis >= 0 THEN NilIP
                             ELSE IF Len(s3) = 1
                                  THEN v6Expand(ip2, Len(ip2))
                                  ELSE v6Loop(Tail_(s3, 1), ip2, Len(ip2))
                        ELSE v6Loop(s3, ip2, ellipsis)

parseIPv6(str) ==
  IF Len(str) >= 2 /\ str[1] = ":" /\ str[2] = ":"
  THEN IF Len(str) = 2 THEN [j \in 1..16 |-> 0]
       ELSE v6Loop(Tail_(str, 2), <<>>, 0)
  ELSE v6Loop(str, <<>>, -1)

\* net.ParseIP: the first '.' or ':' of the string decides the family; a
\* string with neither is not an address.
ParseIP(str) ==
  IF \E i \in 1..Len(str) : str[i] \in {".", ":"}
  THEN LET i == CHOOSE j \in 1..Len(str) :
                  /\ str[j] \in {".", ":"}
                  /\ \A k \in 1..(j - 1) : str[k] \notin {".", ":"}
       IN  IF str[i] = "." THEN parseIPv4(str) ELSE parseIPv6(str)
  ELSE NilIP

(***************************************************************************)
(* Configuration values.                                                   *)
(***************************************************************************)
\* A file path is a tuple of path elements; the empty path is <<>>.
NoPath == <<>>

\* Config.cpath: filepath.Join(cfg.ConfigDir, s), the elements of the base
\* directory followed by those of s (Join drops empty elements).
cpath(cfg, path) == cfg.ConfigDir \o path

\* The configurations New is called with in the lifecycle specification.
KeyPaths(name) == {NoPath, <<name>>}
NameserverInputs == {EmptyStr, <<"a", ",", "b", ".">>}
VanityInputs == {EmptyStr, <<":", ":", "1">>, <<":", ":", "1", ",", "x">>}

\* The key file settings: none; private paths without public ones; a KSK
\* alone; a ZSK alone; both; both with the KSK's private path left empty.
KeySettings ==
  LET K(a, b, c, d) == [PublicKey |-> a, PrivateKey |-> b,
                        ZonePublicKey |-> c, ZonePrivateKey |-> d]
      kp == <<"Kksk.key">>
      ks == <<"Kksk.private">>
      zp == <<"Kzsk.key">>
      zs == <<"Kzsk.private">>
  IN  { K(NoPath, NoPath, NoPath, NoPath), K(NoPath, ks, NoPath, zs),
        K(kp, ks, NoPath, NoPath), K(NoPath, NoPath, zp, zs),
        K(kp, ks, zp, zs), K(kp, NoPath, zp, zs) }

Configs(nameservers, vanity) ==
  { [ Bind                  |-> ":53",
      PublicKey             |-> k.PublicKey,
      PrivateKey            |-> k.PrivateKey,
      ZonePublicKey         |-> k.ZonePublicKey,
      ZonePrivateKey        |-> k.ZonePrivateKey,
      NamecoinRPCCookiePath |-> cookie,
      HTTPListenAddr        |-> http,
      CanonicalNameservers  |-> ns,
      canonicalNameservers  |-> <<>>,
      VanityIPs             |-> v,
      vanityIPs             |-> <<>>,
      ConfigDir             |-> <<"etc", "ncdns">> ] :
    k \in KeySettings, cookie \in KeyPaths(".cookie"),
    http \in {"", ":8080"}, ns \in nameservers, v \in vanity }

\* An error value: its kind ("nil": no error) and, for the vanity IP
\* error, the token its message names.
Err(kind) == [kind |-> kind, token |-> EmptyStr]
NoErr == Err("nil")
ParseErr(tok) == [kind |-> "Couldn't parse IP", token |-> tok]

\* A dns.Server as runListener builds it; NilDs is the nil pointer.
NilDs == [Net |-> "", Listener |-> 0, PacketConn |-> 0]

\* The zero Server: every field nil.  Sockets are named by their index in
\* the variable sockets, 0 being nil.
NilCfg == [ Bind |-> "", PublicKey |-> NoPath, PrivateKey |-> NoPath,
            ZonePublicKey |-> NoPath, ZonePrivateKey |-> NoPath,
            NamecoinRPCCookiePath |-> NoPath, HTTPListenAddr |-> "",
            CanonicalNameservers |-> EmptyStr, canonicalNameservers |-> <<>>,
            VanityIPs |-> EmptyStr, vanityIPs |-> <<>>, ConfigDir |-> NoPath ]

NilServer == [ cfg |-> NilCfg, GetAuth |-> NoPath, engine |-> "nil",
               mux |-> "nil", udpServer |-> NilDs, udpConn |-> 0,
               tcpServer |-> NilDs, tcpListener |-> 0, wgStart |-> 0 ]

NilEcfg == [Backend |-> "nil", KSK |-> "nil", KSKPrivate |-> "nil",
            ZSK |-> "nil", ZSKPrivate |-> "nil"]

Nets == {"udp", "tcp"}

VARIABLES
  proc,       \* "running", or "exited" once log.Fatale has ended the process
  pc,         \* where the supervising thread is
  callerCfg,  \* the Config the caller passed to New
  s,          \* the Server under construction / constructed
  ecfg,       \* New's madns.EngineConfig
  sockets,    \* every socket opened so far: [net, open, attempt]
  task,       \* the two serve goroutines
  ret,        \* what the last call of New returned
  startRet,   \* what Start returned ("none": has not returned)
  state,      \* lifecycle: Unconstructed, Constructed, Started
  attempts,   \* calls of New so far
  stops,      \* calls of Stop so far
  stopRet,    \* what the last call of Stop returned ("none": no call)
  opened,     \* files opened by the current call of New and its backend
  web         \* whether webStart has been called with success

vars == <<proc, pc, callerCfg, s, ecfg, sockets, task, ret, startRet, state,
          attempts, stops, stopRet, opened, web>>

NoRet == [called |-> FALSE, s |-> "nil", err |-> NoErr]
IdleTask == [pc |-> "none", ds |-> NilDs, done |-> 0, served |-> 0]

Init ==
  /\ proc = "running"
  /\ pc = "Idle"
  /\ callerCfg = NilCfg
  /\ s = NilServer
  /\ ecfg = NilEcfg
  /\ sockets = <<>>
  /\ task = [t \in Nets |-> IdleTask]
  /\ ret = NoRet
  /\ startRet = "none"
  /\ state = "Unconstructed"
  /\ attempts = 0
  /\ stops = 0
  /\ stopRet = "none"
  /\ opened = {}
  /\ web = FALSE

(***************************************************************************)
(* New, lines 71-103: the Server value and the normalised lists.           *)
(***************************************************************************)
\* Lines 87-92: the canonical nameservers, each made fully qualified.
NormalizeNameservers(raw, old) ==
  IF raw # EmptyStr
  THEN LET toks == Split(raw) IN [i \in 1..Len(toks) |-> Fqdn(toks[i])]
  ELSE old

\* Mutant of VanityLoop: a token that does not parse is skipped.
RECURSIVE VanityLoopSkip(_, _, _)
VanityLoopSkip(toks, i, acc) ==
  IF i > Len(toks) THEN [ips |-> acc, err |-> NoErr]
  ELSE LET ip == ParseIP(toks[i])
       IN  VanityLoopSkip(toks, i + 1,
                          IF ip = NilIP THEN acc ELSE Append(acc, ip))

\* Lines 96-102: the loop over the vanity IP tokens: the addresses parsed
\* so far are kept until a token does not parse.
RECURSIVE VanityLoop(_, _, _)
VanityLoop(toks, i, acc) ==
  IF i > Len(toks) THEN [ips |-> acc, err |-> NoErr]
  ELSE LET ip == ParseIP(toks[i])
       IN  IF ip = NilIP THEN [ips |-> acc, err |-> ParseErr(toks[i])]
           ELSE VanityLoop(toks, i + 1, Append(acc, ip))

\* Lines 94-103.
NormalizeVanityIPs(raw, old) ==
  IF raw # EmptyStr THEN VanityLoop(Split(raw), 1, old)
  ELSE [ips |-> old, err |-> NoErr]

\* New returns (sv, e): sv is "nil" or "server" (the pointer to s).
Return(sv, e) ==
  /\ ret' = [called |-> TRUE, s |-> sv, err |-> e]
  /\ pc' = "Idle"
  /\ state' = IF e = NoErr THEN "Constructed" ELSE state

\* cookieRetriever(path): the retrieval strategy it builds, named by the
\* file that strategy reads for the credentials.  It is given the path
\* only, so that file is the path as passed.
cookieRetriever(path) == path

\* Lines 83-85: the retrieval strategy of the naming-service connection;
\* NoPath stands for the nil strategy (static credentials).
GetAuthOf(c) ==
  IF c.NamecoinRPCCookiePath # NoPath
  THEN cookieRetriever(c.NamecoinRPCCookiePath)
  ELSE NoPath

\* Mutant of CallerCfgAfter: s.cfg shares the caller's Config, so that the
\* normalised lists are written to it.
CallerCfgShared(c, scfg) == scfg

\* Line 75: s.cfg is a copy of *cfg; scfg is the copy after lines 87-103
\* have written the normalised lists to it, and the caller's Config is
\* what it was.
CallerCfgAfter(c, scfg) == c

\* Mutant of NewBeginWith: the KSK public key file is opened before the
\* vanity IPs are parsed.
NewBeginKeysFirst(c) ==
  /\ proc = "running" /\ pc = "Idle" /\ state = "Unconstructed"
  /\ attempts < MaxAttempts
  /\ attempts' = attempts + 1
  /\ LET ns == NormalizeNameservers(c.CanonicalNameservers,
                                    c.canonicalNameservers)
         v  == NormalizeVanityIPs(c.VanityIPs, c.vanityIPs)
         scfg == [c EXCEPT !.canonicalNameservers = ns, !.vanityIPs = v.ips]
     IN  /\ s' = [NilServer EXCEPT !.cfg = scfg,
                                   !.GetAuth = GetAuthOf(c)]
         /\ callerCfg' = CallerCfgAfter(c, scfg)
         /\ IF v.err # NoErr
            THEN Return("nil", v.err)
            ELSE /\ pc' = "NewBackend"
                 /\ ret' = NoRet
                 /\ state' = state
  /\ ecfg' = NilEcfg
  /\ opened' = IF c.PublicKey # NoPath THEN {cpath(c, c.PublicKey)} ELSE {}
  /\ UNCHANGED <<proc, sockets, task, startRet, stops, stopRet, web>>

\* Lines 71-103 for the configuration c.
NewBeginWith(c) ==
  /\ proc = "running" /\ pc = "Idle" /\ state = "Unconstructed"
  /\ attempts < MaxAttempts
  /\ attempts' = attempts + 1
  /\ LET ns == NormalizeNameservers(c.CanonicalNameservers,
                                    c.canonicalNameservers)
         v  == NormalizeVanityIPs(c.VanityIPs, c.vanityIPs)
         scfg == [c EXCEPT !.canonicalNameservers = ns, !.vanityIPs = v.ips]
     IN  /\ s' = [NilServer EXCEPT !.cfg = scfg,
                                   !.GetAuth = GetAuthOf(c)]
         /\ callerCfg' = CallerCfgAfter(c, scfg)
         /\ IF v.err # NoErr
            THEN Return("nil", v.err)
            ELSE /\ pc' = "NewBackend"
                 /\ ret' = NoRet
                 /\ state' = state
  /\ ecfg' = NilEcfg
  /\ opened' = {}
  /\ UNCHANGED <<proc, sockets, task, startRet, stops, stopRet, web>>

NewBegin == \E c \in Configs(NameserverInputs, VanityInputs) : NewBeginWith(c)

\* Lines 105-120: backend.New and the engine configuration.
NewBackend ==
  /\ proc = "running" /\ pc = "NewBackend"
  /\ \E ok \in BOOLEAN :
       IF ok
       THEN /\ ecfg' = [ecfg EXCEPT !.Backend = "backend"]
            /\ pc' = "NewKSK"
            /\ UNCHANGED <<ret, state>>
       ELSE /\ Return("server", Err("backend"))
            /\ UNCHANGED ecfg
  /\ UNCHANGED <<proc, callerCfg, s, sockets, task, startRet, attempts,
                 stops, stopRet, opened, web>>

\* Lines 83-85 and 105-106: the backend holds the connection descriptor
\* and, when it connects to the naming service, calls its GetAuth, which
\* reads the cookie file.
GetAuth ==
  /\ proc = "running" /\ ecfg.Backend # "nil"
  /\ s.GetAuth # NoPath /\ s.GetAuth \notin opened
  /\ opened' = opened \cup {s.GetAuth}
  /\ UNCHANGED <<proc, pc, callerCfg, s, ecfg, sockets, task, ret, startRet,
                 state, attempts, stops, stopRet, web>>

(***************************************************************************)
(* Key loading, lines 122-139 and 179-208.                                 *)
(***************************************************************************)
\* Mutant of Fatale: the error is logged and the process goes on.
FataleLogsOnly(err, p) == p

\* log.Fatale(err): ends the process when err is not nil.
Fatale(err, p) == IF err # NoErr THEN "exited" ELSE p

\* What the file system and the parsers may answer to one loadKey.
LoadOutcomes == {"open fails", "ReadRR fails", "not a DNSKEY",
                 "private open fails", "ReadPrivateKey fails", "ok"}

\* loadKey(fn, privateFn) under the outcome o: the key, the private key,
\* the error, the files it opened and the process state it leaves.
loadKey(cfg, fn, privateFn, o, p) ==
  LET f1 == cpath(cfg, fn)
      f2 == cpath(cfg, privateFn)
  IN  CASE o = "open fails" ->
             [k |-> "nil", privatek |-> "nil", err |-> Err("open"),
              files |-> {f1}, proc |-> p]
        [] o = "ReadRR fails" ->
             [k |-> "nil", privatek |-> "nil", err |-> Err("ReadRR"),
              files |-> {f1}, proc |-> p]
        [] o = "not a DNSKEY" ->
             [k |-> "nil", privatek |-> "nil", err |-> Err("not a DNSKEY"),
              files |-> {f1}, proc |-> p]
        [] o = "private open fails" ->
             [k |-> "DNSKEY", privatek |-> "nil", err |-> Err("open"),
              files |-> {f1, f2}, proc |-> p]
        [] o = "ReadPrivateKey fails" ->
             [k |-> "DNSKEY", privatek |-> "nil",
              err |-> Err("ReadPrivateKey"), files |-> {f1, f2},
              proc |-> Fatale(Err("ReadPrivateKey"), p)]
        [] OTHER ->
             [k |-> "DNSKEY", privatek |-> "PrivateKey", err |-> NoErr,
              files |-> {f1, f2}, proc |-> Fatale(NoErr, p)]

\* Mutant of KeyConfigured: a private key path alone also has the pair
\* loaded.
KeyConfiguredEither(pub, priv) == pub # NoPath \/ priv # NoPath

\* Lines 123 and 130: a key pair is loaded when its public key path is
\* not empty.
KeyConfigured(pub, priv) == pub # NoPath

\* Lines 123-128 (which = "KSK") and 130-135 (which = "ZSK").
LoadStep(here, next, pub, priv, which) ==
  /\ proc = "running" /\ pc = here
  /\ IF KeyConfigured(pub, priv)
     THEN \E o \in LoadOutcomes :
            LET r == loadKey(s.cfg, pub, priv, o, proc)
            IN  /\ ecfg' = IF which = "KSK"
                           THEN [ecfg EXCEPT !.KSK = r.k, !.KSKPrivate = r.privatek]
                           ELSE [ecfg EXCEPT !.ZSK = r.k, !.ZSKPrivate = r.privatek]
                /\ opened' = opened \cup r.files
                /\ proc' = r.proc
                /\ IF r.proc = "exited" THEN UNCHANGED <<pc, ret, state>>
                   ELSE IF r.err # NoErr THEN Return("nil", r.err)
                   ELSE pc' = next /\ UNCHANGED <<ret, state>>
     ELSE /\ pc' = next
          /\ UNCHANGED <<ecfg, opened, proc, ret, state>>
  /\ UNCHANGED <<callerCfg, s, sockets, task, startRet, attempts, stops,
                 stopRet, web>>

NewKSK ==
  LoadStep("NewKSK", "NewZSK", callerCfg.PublicKey, callerCfg.PrivateKey, "KSK")

NewZSK ==
  LoadStep("NewZSK", "NewCheck", callerCfg.ZonePublicKey,
           callerCfg.ZonePrivateKey, "ZSK")

\* Mutant of KSKWithoutZSK: the two keys exchanged.
ZSKWithoutKSK(e) == e.ZSK # "nil" /\ e.KSK = "nil"

\* Line 137: a KSK without a ZSK.
KSKWithoutZSK(e) == e.KSK # "nil" /\ e.ZSK = "nil"

\* Mutant of NewCheck: the cross-check left out.
NewCheckSkipped ==
  /\ proc = "running" /\ pc = "NewCheck"
  /\ pc' = "NewEngine"
  /\ UNCHANGED <<proc, callerCfg, s, ecfg, sockets, task, ret, startRet,
                 state, attempts, stops, stopRet, opened, web>>

\* Lines 137-139.
NewCheck ==
  /\ proc = "running" /\ pc = "NewCheck"
  /\ IF KSKWithoutZSK(ecfg)
     THEN Return("nil", Err("Must specify ZSK if KSK is specified"))
     ELSE pc' = "NewEngine" /\ UNCHANGED <<ret, state>>
  /\ UNCHANGED <<proc, callerCfg, s, ecfg, sockets, task, startRet, attempts,
                 stops, stopRet, opened, web>>

\* Lines 141-147: the engine and the request router.
NewEngine ==
  /\ proc = "running" /\ pc = "NewEngine"
  /\ \E ok \in BOOLEAN :
       IF ok
       THEN /\ s' = [s EXCEPT !.engine = "engine", !.mux = "mux"]
            /\ pc' = "NewTCP"
            /\ UNCHANGED <<ret, state>>
       ELSE /\ Return("server", Err("engine"))
            /\ UNCHANGED s
  /\ UNCHANGED <<proc, callerCfg, ecfg, sockets, task, startRet, attempts,
                 stops, stopRet, opened, web>>

(***************************************************************************)
(* Socket acquisition, lines 149-167, and the web frontend, 169-176.       *)
(***************************************************************************)
\* The bind address is taken when a socket of this network bound to it is
\* still open in this process.
InUse(socks, net) ==
  \E i \in 1..Len(socks) : socks[i].net = net /\ socks[i].open

\* net.ListenTCP / net.ListenUDP: a new open socket of the network.
Listen(socks, net, n) ==
  Append(socks, [net |-> net, open |-> TRUE, attempt |-> n])

\* Lines 149-157 (net = "tcp") and 159-167 (net = "udp"): resolve the
\* address, then bind; either may fail, and a bind to an address in use
\* does fail.  Every failure is a bare return: (s, err).
BindStep(here, next, net) ==
  /\ proc = "running" /\ pc = here
  /\ \E o \in {"resolve fails", "listen fails", "ok"} :
       /\ (o = "ok") => ~InUse(sockets, net)
       /\ IF o = "ok"
          THEN /\ sockets' = Listen(sockets, net, attempts)
               /\ s' = IF net = "tcp"
                       THEN [s EXCEPT !.tcpListener = Len(sockets) + 1]
                       ELSE [s EXCEPT !.udpConn = Len(sockets) + 1]
               /\ pc' = next
               /\ UNCHANGED <<ret, state>>
          ELSE /\ Return("server", Err(o))
               /\ UNCHANGED <<s, sockets>>
  /\ UNCHANGED <<proc, callerCfg, ecfg, task, startRet, attempts, stops, stopRet,
                 opened, web>>

NewTCP == BindStep("NewTCP", "NewUDP", "tcp")

NewUDP == BindStep("NewUDP", "NewWeb", "udp")

\* Lines 169-176: webStart when an HTTP address is configured, and the
\* final return.
NewWeb ==
  /\ proc = "running" /\ pc = "NewWeb"
  /\ IF callerCfg.HTTPListenAddr # ""
     THEN \E ok \in BOOLEAN :
            /\ web' = ok
            /\ Return("server", IF ok THEN NoErr ELSE Err("webStart"))
     ELSE /\ Return("server", NoErr)
          /\ UNCHANGED web
  /\ UNCHANGED <<proc, callerCfg, s, ecfg, sockets, task, startRet, attempts,
                 stops, stopRet, opened>>

(***************************************************************************)
(* Start, lines 210-217, and runListener, lines 224-244.                   *)
(***************************************************************************)
\* Mutants of the WaitGroup: Add that counts one party whatever n is, and
\* Wait that returns as soon as one party is left.
wgAddOne(wg, n) == wg + 1
wgWaitReturnsEarly(wg) == wg <= 1

\* Mutant of wgAdd: one party too many.
wgAddThree(wg, n) == wg + 3

\* sync.WaitGroup: Add, Done and the condition Wait blocks on.
wgAdd(wg, n) == wg + n
wgDone(wg) == wg - 1
wgWaitReturns(wg) == wg = 0

\* Mutant of runListenerDs: the switch on the network left out, so that
\* the dns.Server is given neither socket.
runListenerNoConn(srv, net) ==
  [Net |-> net, Listener |-> 0, PacketConn |-> 0]

\* Lines 225-240: the dns.Server runListener builds for a network: the
\* TCP one is given the listener bound in New, the UDP one the UDP socket.
runListenerDs(srv, net) ==
  [Net |-> net,
   Listener |-> IF net = "tcp" THEN srv.tcpListener ELSE 0,
   PacketConn |-> IF net = "udp" THEN srv.udpConn ELSE 0]

\* The socket a dns.Server serves on (0: none).
Conn(ds) == IF ds.Net = "tcp" THEN ds.Listener ELSE ds.PacketConn

\* Line 211.
StartAdd ==
  /\ proc = "running" /\ pc = "Idle" /\ state = "Constructed"
  /\ s' = [s EXCEPT !.wgStart = wgAdd(s.wgStart, 2)]
  /\ pc' = "StartUDP"
  /\ UNCHANGED <<proc, callerCfg, ecfg, sockets, task, ret, startRet, state,
                 attempts, stops, stopRet, opened, web>>

\* Lines 212 and 213: runListener(net) builds the dns.Server and starts
\* the goroutine doRunListener on it.
RunListener(here, next, net) ==
  /\ proc = "running" /\ pc = here
  /\ LET ds == runListenerDs(s, net)
     IN  /\ task' = [task EXCEPT ![net] = [@ EXCEPT !.pc = "spawned", !.ds = ds]]
         /\ s' = IF net = "udp" THEN [s EXCEPT !.udpServer = ds]
                 ELSE [s EXCEPT !.tcpServer = ds]
  /\ pc' = next
  /\ UNCHANGED <<proc, callerCfg, ecfg, sockets, ret, startRet, state,
                 attempts, stops, stopRet, opened, web>>

StartUDP == RunListener("StartUDP", "StartTCP", "udp")

StartTCP == RunListener("StartTCP", "StartWait", "tcp")

\* Lines 214-216: Wait returns once the counter is zero; Start returns nil.
StartWait ==
  /\ proc = "running" /\ pc = "StartWait"
  /\ wgWaitReturns(s.wgStart)
  /\ startRet' = "nil"
  /\ state' = "Started"
  /\ pc' = "Idle"
  /\ UNCHANGED <<proc, callerCfg, s, ecfg, sockets, task, ret, attempts,
                 stops, stopRet, opened, web>>

(***************************************************************************)
(* The serve goroutines: doRunListener, lines 219-222.                     *)
(***************************************************************************)
\* Mutant of Activate: a failure to activate is handed to Start as its
\* error instead of ending the process.
ActivateReporting(t) ==
  /\ proc = "running" /\ task[t].pc = "spawned"
  /\ \E ok \in BOOLEAN :
       /\ ok => Conn(task[t].ds) # 0
       /\ IF ok
          THEN /\ task' = [task EXCEPT ![t].pc = "active"]
               /\ UNCHANGED startRet
          ELSE /\ task' = [task EXCEPT ![t].pc = "failed"]
               /\ startRet' = "error"
  /\ UNCHANGED <<proc, pc, callerCfg, s, ecfg, sockets, ret, state,
                 attempts, stops, stopRet, opened, web>>

\* ActivateAndServe begins: the server is active on its socket, or the
\* call returns an error at once (always so without a socket) and
\* log.Fatale ends the process.
Activate(t) ==
  /\ proc = "running" /\ task[t].pc = "spawned"
  /\ \E ok \in BOOLEAN :
       /\ ok => Conn(task[t].ds) # 0
       /\ IF ok
          THEN /\ task' = [task EXCEPT ![t].pc = "active"]
               /\ UNCHANGED proc
          ELSE /\ task' = [task EXCEPT ![t].pc = "failed"]
               /\ proc' = Fatale(Err("ActivateAndServe"), proc)
  /\ UNCHANGED <<pc, callerCfg, s, ecfg, sockets, ret, startRet, state,
                 attempts, stops, stopRet, opened, web>>

\* Lines 229-231: the active server calls NotifyStartedFunc, which calls
\* wgStart.Done (a panic, ending the process, on a counter of zero), and
\* enters its serve loop.
Notify(t) ==
  /\ proc = "running" /\ task[t].pc = "active"
  /\ IF s.wgStart = 0
     THEN /\ proc' = "exited"
          /\ UNCHANGED <<s, task>>
     ELSE /\ s' = [s EXCEPT !.wgStart = wgDone(s.wgStart)]
          /\ task' = [task EXCEPT ![t].pc = "serving", ![t].done = @ + 1]
          /\ UNCHANGED proc
  /\ UNCHANGED <<pc, callerCfg, ecfg, sockets, ret, startRet, state,
                 attempts, stops, stopRet, opened, web>>

\* The serve loop answers a query read from its socket.
Serve(t) ==
  /\ proc = "running" /\ task[t].pc = "serving"
  /\ sockets[Conn(task[t].ds)].open
  /\ task[t].served < MaxQueries
  /\ task' = [task EXCEPT ![t].served = @ + 1]
  /\ UNCHANGED <<proc, pc, callerCfg, s, ecfg, sockets, ret, startRet, state,
                 attempts, stops, stopRet, opened, web>>

\* Lines 220-221: ActivateAndServe returns an error from the serve loop
\* and log.Fatale ends the process.
ServeFail(t) ==
  /\ proc = "running" /\ task[t].pc = "serving"
  /\ task' = [task EXCEPT ![t].pc = "failed"]
  /\ proc' = Fatale(Err("ActivateAndServe"), proc)
  /\ UNCHANGED <<pc, callerCfg, s, ecfg, sockets, ret, startRet, state,
                 attempts, stops, stopRet, opened, web>>

(***************************************************************************)
(* Stop, lines 246-248.                                                    *)
(***************************************************************************)
\* Mutant of Stop: it closes the sockets and marks the Server stopped.
StopClosing ==
  /\ proc = "running" /\ state # "Unconstructed"
  /\ stops < MaxStops
  /\ stops' = stops + 1
  /\ stopRet' = "nil"
  /\ sockets' = [i \in 1..Len(sockets) |-> [sockets[i] EXCEPT !.open = FALSE]]
  /\ state' = "Stopped"
  /\ UNCHANGED <<proc, pc, callerCfg, s, ecfg, task, ret, startRet,
                 attempts, opened, web>>

\* Stop returns nil and does nothing else.  It may be called on a
\* constructed Server at any time, also while Start is blocked.
Stop ==
  /\ proc = "running" /\ state # "Unconstructed"
  /\ stops < MaxStops
  /\ stops' = stops + 1
  /\ stopRet' = "nil"
  /\ UNCHANGED <<proc, pc, callerCfg, s, ecfg, sockets, task, ret, startRet,
                 state, attempts, opened, web>>

(***************************************************************************)
(* The lifecycle specification.                                            *)
(***************************************************************************)
Next ==
  \/ NewBegin \/ NewBackend \/ GetAuth \/ NewKSK \/ NewZSK \/ NewCheck \/ NewEngine
  \/ NewTCP \/ NewUDP \/ NewWeb
  \/ StartAdd \/ StartUDP \/ StartTCP \/ StartWait
  \/ \E t \in Nets : Activate(t) \/ Notify(t) \/ Serve(t) \/ ServeFail(t)
  \/ Stop

Spec == Init /\ [][Next]_vars

(***************************************************************************)
(* The lifecycle under fair scheduling: the thread that calls Start and    *)
(* the two goroutines are each run again and again by the Go scheduler,    *)
(* so a step of theirs that stays possible is taken.  Calls of New and of  *)
(* Stop are up to the caller and have no fairness.  The configurations     *)
(* are those without keys and without raw lists.                           *)
(***************************************************************************)
LiveConfigs ==
  {c \in Configs({EmptyStr}, {EmptyStr}) :
     /\ c.PublicKey = NoPath /\ c.PrivateKey = NoPath
     /\ c.ZonePublicKey = NoPath /\ c.ZonePrivateKey = NoPath}

NewBeginLive == \E c \in LiveConfigs : NewBeginWith(c)

NextLive ==
  \/ NewBeginLive \/ NewBackend \/ GetAuth \/ NewKSK \/ NewZSK \/ NewCheck
  \/ NewEngine \/ NewTCP \/ NewUDP \/ NewWeb
  \/ StartAdd \/ StartUDP \/ StartTCP \/ StartWait
  \/ \E t \in Nets : Activate(t) \/ Notify(t) \/ Serve(t) \/ ServeFail(t)
  \/ Stop

SpecLive ==
  /\ Init /\ [][NextLive]_vars
  /\ WF_vars(StartUDP) /\ WF_vars(StartTCP) /\ WF_vars(StartWait)
  /\ \A t \in Nets : WF_vars(Activate(t)) /\ WF_vars(Notify(t))

(***************************************************************************)
(* The normalisation specification: New's first step, lines 71-103, on     *)
(* every raw list of at most MaxTokens tokens.                             *)
(***************************************************************************)
RECURSIVE JoinTokens(_)
JoinTokens(toks) ==
  IF Len(toks) = 1 THEN toks[1]
  ELSE toks[1] \o <<",">> \o JoinTokens(Tail(toks))

RawLists(T) ==
  {JoinTokens(l) : l \in UNION {[1..k -> T] : k \in 1..MaxTokens}}

VanityTokens ==
  { EmptyStr, <<"x">>, <<":">>, <<":", ":", "1">>, <<"1", ":", ":">>,
    <<"1", ".", "2", ".", "3", ".", "4">>, <<"1", ".", "2", ".", "3">> }

NameserverTokens ==
  { EmptyStr, <<".">>, <<"a">>, <<"a", ".">>, <<"b", ".", "c">>,
    <<"a", "\\">>, <<"a", "\\", ".">> }

\* One list varies at a time; the other fields are those of the first
\* lifecycle configuration without keys, cookie file and web frontend.
NormConfigs ==
  LET base == CHOOSE c \in Configs({EmptyStr}, {EmptyStr}) :
                /\ c.PublicKey = NoPath /\ c.PrivateKey = NoPath
                /\ c.ZonePublicKey = NoPath /\ c.ZonePrivateKey = NoPath
                /\ c.NamecoinRPCCookiePath = NoPath /\ c.HTTPListenAddr = ""
  IN  {[base EXCEPT !.CanonicalNameservers = n] : n \in RawLists(NameserverTokens)}
        \cup {[base EXCEPT !.VanityIPs = v] : v \in RawLists(VanityTokens)}

NewBeginNorm == \E c \in NormConfigs : attempts = 0 /\ NewBeginWith(c)

NextNorm == NewBeginNorm

SpecNorm == Init /\ [][NextNorm]_vars

(***************************************************************************)
(* Properties.                                                             *)
(***************************************************************************)
\* The sockets opened by the n-th call of New.
SocketsOf(n) == {i \in 1..Len(sockets) : sockets[i].attempt = n}

\* The supervising thread is inside New.
InNew == pc \in {"NewBackend", "NewKSK", "NewZSK", "NewCheck", "NewEngine",
                 "NewTCP", "NewUDP", "NewWeb"}

\* Start has executed wgStart.Add(2).
Added == pc \in {"StartUDP", "StartTCP", "StartWait"} \/ startRet # "none"

\* C1: Start has returned only if both the UDP and the TCP serve loop have
\* signalled readiness (each has called NotifyStartedFunc).
C1_StartAfterBothReady ==
  startRet # "none" =>
    \A t \in Nets : task[t].done >= 1 /\ task[t].pc \in {"serving", "failed"}

C1_Witness ==
  /\ startRet = "nil" /\ proc = "running" /\ state = "Started"
  /\ \A t \in Nets : task[t].pc = "serving"

\* C2 (as claimed): when New has returned an error, no socket opened by
\* that call is still open.
C2_NewFailsAtomically ==
  (pc = "Idle" /\ ret.called /\ ret.err # NoErr) =>
    \A i \in SocketsOf(attempts) : ~sockets[i].open

\* C3 (as claimed): no failure inside New ends the process; in particular
\* the process is running whenever the supervising thread is inside New.
C3_ConstructionNeverExits == InNew => proc = "running"

C5_BarrierCount ==
  /\ s.wgStart \in {0, 1, 2}
  /\ \A t \in Nets :
       /\ task[t].done \in {0, 1}
       /\ task[t].done = 1 => task[t].pc \in {"serving", "failed"}
       /\ task[t].pc \in {"none", "spawned", "active"} => task[t].done = 0
  /\ s.wgStart = (IF Added THEN 2 ELSE 0) - task["udp"].done - task["tcp"].done
  /\ (Added /\ s.wgStart = 0) => \A t \in Nets : task[t].done = 1

C5_Witness ==
  /\ pc = "StartWait" /\ proc = "running" /\ s.wgStart = 1
  /\ task["tcp"].done = 1 /\ task["udp"].pc = "active"

\* C6: a constructed Server has exactly the two sockets its call of New
\* opened, one TCP listener and one UDP socket, both open; each serve
\* loop serves on the socket of its network bound in New; and before
\* Start is called no serve loop exists and no query has been answered.
C6_SocketsBoundOnce ==
  /\ state # "Unconstructed" =>
       /\ SocketsOf(attempts) = {s.tcpListener, s.udpConn}
       /\ s.tcpListener # s.udpConn
       /\ s.tcpListener \in 1..Len(sockets) /\ s.udpConn \in 1..Len(sockets)
       /\ sockets[s.tcpListener] =
            [net |-> "tcp", open |-> TRUE, attempt |-> attempts]
       /\ sockets[s.udpConn] =
            [net |-> "udp", open |-> TRUE, attempt |-> attempts]
  /\ \A t \in Nets :
       task[t].pc # "none" =>
         /\ task[t].ds.Net = t
         /\ Conn(task[t].ds) = (IF t = "tcp" THEN s.tcpListener ELSE s.udpConn)
         /\ Conn(task[t].ds) # 0
  /\ (state = "Unconstructed" \/ (state = "Constructed" /\ pc = "Idle")) =>
       \A t \in Nets : task[t].pc = "none" /\ task[t].served = 0

C6_Witness ==
  /\ state = "Started" /\ proc = "running"
  /\ \A t \in Nets : task[t].served >= 1
  /\ Len(sockets) = 2

\* C7: a serve loop whose serve call has returned an error has ended the
\* process: no state has a failed serve loop and a running process.
C7_ServeFailureIsFatal ==
  \A t \in Nets : task[t].pc = "failed" => proc = "exited"

C7_Witness ==
  /\ startRet = "nil" /\ proc = "exited"
  /\ task["udp"].pc = "failed" /\ task["udp"].done = 1
  /\ task["tcp"].pc = "serving"

\* C8: every step moves the lifecycle along Unconstructed -> Constructed
\* -> Started or leaves it alone, and a call of Stop returns nil and
\* changes nothing else of the Server, its sockets and its serve loops.
C8_StopIsNoOp ==
  [][ /\ <<state, state'>> \in
           { <<"Unconstructed", "Unconstructed">>,
             <<"Unconstructed", "Constructed">>,
             <<"Constructed", "Constructed">>,
             <<"Constructed", "Started">>,
             <<"Started", "Started">> }
      /\ stops' # stops =>
           /\ stopRet' = "nil"
           /\ UNCHANGED <<proc, pc, callerCfg, s, ecfg, sockets, task, ret,
                          startRet, state, attempts, opened, web>> ]_vars

C8_Witness ==
  /\ stops >= 2 /\ stopRet = "nil" /\ state = "Started" /\ proc = "running"
  /\ \A t \in Nets : task[t].pc = "serving"
  /\ \A i \in SocketsOf(attempts) : sockets[i].open

\* C9 (as claimed): after Stop has returned, the Server's UDP and TCP
\* sockets are closed, so that their address can be bound again.
C9_StopReleasesSockets ==
  stopRet = "nil" =>
    /\ \A i \in SocketsOf(attempts) : ~sockets[i].open
    /\ \A n \in Nets : ~InUse(sockets, n)

\* The tokens of a raw list, found from the positions of its commas.
Cuts(raw) == {0, Len(raw) + 1} \cup {i \in 1..Len(raw) : raw[i] = ","}
NthCut(raw, k) ==
  CHOOSE c \in Cuts(raw) : Cardinality({d \in Cuts(raw) : d < c}) = k - 1
NumTokens(raw) == Cardinality(Cuts(raw)) - 1
NthToken(raw, k) == SubSeq(raw, NthCut(raw, k) + 1, NthCut(raw, k + 1) - 1)

\* C10: after New's normalisation of VanityIPs: the empty string gives
\* the empty list; a string whose tokens all parse gives one address per
\* token, the k-th being the parsed k-th token; otherwise New has returned
\* no Server and the error naming the first token that does not parse.
C10_VanityIPs ==
  attempts >= 1 =>
    LET raw == callerCfg.VanityIPs
        bad == {k \in 1..NumTokens(raw) : ParseIP(NthToken(raw, k)) = NilIP}
    IN  IF raw = EmptyStr
        THEN s.cfg.vanityIPs = <<>> /\ ~ret.called /\ pc = "NewBackend"
        ELSE IF bad = {}
        THEN /\ ~ret.called /\ pc = "NewBackend"
             /\ Len(s.cfg.vanityIPs) = NumTokens(raw)
             /\ \A k \in 1..NumTokens(raw) :
                  s.cfg.vanityIPs[k] = ParseIP(NthToken(raw, k))
        ELSE LET first == CHOOSE k \in bad : \A j \in bad : k <= j
             IN  /\ pc = "Idle" /\ ret.called /\ ret.s = "nil"
                 /\ ret.err = ParseErr(NthToken(raw, first))
                 /\ state = "Unconstructed"

C10_Witness ==
  /\ callerCfg.VanityIPs =
       <<"1", ".", "2", ".", "3", ".", "4", ",", ":", ":", "1">>
  /\ pc = "NewBackend"
  /\ s.cfg.vanityIPs =
       << <<0, 0, 0, 0, 0, 0, 0, 0, 0, 0, 255, 255, 1, 2, 3, 4>>,
          <<0, 0, 0, 0, 0, 0, 0, 0, 0, 0, 0, 0, 0, 0, 0, 1>> >>

\* C11: a call of New that has failed on a vanity IP token has opened no
\* key file, has built no backend or engine, and has resolved and bound
\* no socket.
C11_VanityFailsFirst ==
  (pc = "Idle" /\ ret.called /\ ret.err.kind = "Couldn't parse IP") =>
    /\ opened = {}
    /\ SocketsOf(attempts) = {}
    /\ s.tcpListener = 0 /\ s.udpConn = 0
    /\ ecfg = NilEcfg /\ s.engine = "nil"
    /\ ret.s = "nil"

C11_Witness ==
  /\ pc = "Idle" /\ ret.called /\ ret.err = ParseErr(<<"x">>)
  /\ callerCfg.PublicKey # NoPath /\ callerCfg.ZonePublicKey # NoPath
  /\ attempts = 2 /\ Len(sockets) >= 1

\* A token ends in a dot; a token ends in a backslash, or in a backslash
\* followed by a dot.
EndsInDot(tok) == Len(tok) > 0 /\ tok[Len(tok)] = "."
EndsInEscape(tok) ==
  \/ Len(tok) >= 1 /\ tok[Len(tok)] = "\\"
  \/ Len(tok) >= 2 /\ tok[Len(tok)] = "." /\ tok[Len(tok) - 1] = "\\"

\* The canonical nameserver entry claimed for a token: the token, with a
\* dot added iff it does not end in one.
Dotted(tok) == IF EndsInDot(tok) THEN tok ELSE tok \o <<".">>

RawKept ==
  /\ callerCfg \in Configs(NameserverInputs, VanityInputs)
  /\ callerCfg.canonicalNameservers = <<>> /\ callerCfg.vanityIPs = <<>>
  /\ [s.cfg EXCEPT !.canonicalNameservers = <<>>, !.vanityIPs = <<>>]
       = callerCfg

\* C13: after every step of or after a call of New the caller's Config is
\* as it was passed in and the raw fields of s.cfg equal it (only the
\* normalised lists of s.cfg differ); the caller's Config changes only
\* when New is called again with another Config.
C13_RawConfigKept ==
  [][ /\ attempts' >= 1 => RawKept'
      /\ attempts' = attempts => callerCfg' = callerCfg ]_vars

C13_Witness ==
  /\ state = "Constructed" /\ ret.err = NoErr
  /\ callerCfg.CanonicalNameservers # EmptyStr
  /\ callerCfg.VanityIPs # EmptyStr
  /\ Len(s.cfg.canonicalNameservers) = 2 /\ Len(s.cfg.vanityIPs) = 1
  /\ callerCfg.canonicalNameservers = <<>> /\ callerCfg.vanityIPs = <<>>

\* The file paths a configuration holds.
ConfigPaths(cfg) ==
  {cfg.PublicKey, cfg.PrivateKey, cfg.ZonePublicKey, cfg.ZonePrivateKey,
   cfg.NamecoinRPCCookiePath} \ {NoPath}

\* C14 (as claimed): every file opened or read for the configuration is a
\* path of the configuration resolved against ConfigDir.
C14_PathsResolved ==
  \A f \in opened : \E p \in ConfigPaths(s.cfg) : f = cpath(s.cfg, p)

\* The files loadKey would open for a pair of key paths.
PairFiles(cfg, pub, priv) == {cpath(cfg, pub), cpath(cfg, priv)}

\* The key loading step of New for one pair, taken with an empty public
\* key path: it goes on to the next step and changes nothing else.
SkipsPair(here, next, pub) ==
  (pc = here /\ pub = NoPath /\ pc' # pc) =>
     (pc' = next /\ UNCHANGED <<ecfg, opened, proc, ret, state>>)

KeyErrKinds ==
  {"open", "ReadRR", "not a DNSKEY", "ReadPrivateKey",
   "Must specify ZSK if KSK is specified"}

\* The key phase of the current call has succeeded: every configured pair
\* is loaded and a KSK has its ZSK.
KeysDone ==
  /\ callerCfg.PublicKey # NoPath =>
       (ecfg.KSK # "nil" /\ ecfg.KSKPrivate # "nil")
  /\ callerCfg.ZonePublicKey # NoPath =>
       (ecfg.ZSK # "nil" /\ ecfg.ZSKPrivate # "nil")
  /\ ~(ecfg.KSK # "nil" /\ ecfg.ZSK = "nil")

\* Both sockets of the current call are bound and open.
BothBound ==
  /\ s.tcpListener # 0 /\ s.udpConn # 0
  /\ SocketsOf(attempts) = {s.tcpListener, s.udpConn}
  /\ sockets[s.tcpListener].net = "tcp" /\ sockets[s.tcpListener].open
  /\ sockets[s.udpConn].net = "udp" /\ sockets[s.udpConn].open

\* What holds of the current call of New at every point of it.
PhaseOrder ==
  /\ pc \in {"NewBackend", "NewKSK", "NewZSK", "NewCheck"} =>
       (s.engine = "nil" /\ s.mux = "nil" /\ SocketsOf(attempts) = {})
  /\ (ret.called /\ pc = "Idle" /\ ret.err.kind \in KeyErrKinds) =>
       (s.engine = "nil" /\ SocketsOf(attempts) = {})
  /\ s.engine # "nil" => (KeysDone /\ s.mux # "nil")
  /\ SocketsOf(attempts) # {} =>
       (s.engine # "nil" /\ s.tcpListener \in SocketsOf(attempts))
  /\ s.udpConn # 0 => s.tcpListener # 0
  /\ pc = "NewUDP" => (s.tcpListener # 0 /\ s.udpConn = 0)
  /\ (pc = "NewWeb" \/ ret.err = Err("webStart")) => BothBound

\* C16: in every call of New the engine and the router exist only after
\* key loading and the cross-check have succeeded, the TCP socket only
\* after the engine, the UDP socket only after the TCP socket, and the web
\* frontend is started only with both sockets bound and HTTPListenAddr
\* not empty; a key-load or cross-check failure leaves zero sockets opened
\* by the call.
C16_PhaseOrder ==
  [][ /\ PhaseOrder'
      /\ (web' # web \/ (ret' # ret /\ ret'.err = Err("webStart"))) =>
           (BothBound /\ pc = "NewWeb" /\ callerCfg.HTTPListenAddr # "")
    ]_vars

C16_Witness ==
  /\ state = "Constructed" /\ ret.err = NoErr /\ web
  /\ ecfg.KSK # "nil" /\ ecfg.ZSK # "nil" /\ s.engine # "nil"
  /\ BothBound

\* Start has been called and has not returned.
InStart == pc \in {"StartUDP", "StartTCP", "StartWait"}

\* C17: under fair scheduling of the calling thread and of both serve
\* goroutines a call of Start leads to its return or to the end of the
\* process (a transport that fails instead of confirming ends it); and
\* Start returns only in a state where both transports have confirmed, so
\* that it never returns while one of them has not.
C17_StartLiveness ==
  /\ InStart ~> (startRet = "nil" \/ proc = "exited")
  /\ [][ startRet' # startRet =>
           (pc = "StartWait" /\ \A t \in Nets : task[t].done = 1) ]_vars

C17_Witness ==
  /\ startRet = "nil" /\ proc = "running" /\ pc = "Idle"
  /\ \A t \in Nets : task[t].done = 1
  /\ s.wgStart = 0 /\ stops = 0

\* C18 (as claimed): whenever New has returned an error, the Server it
\* returned is nil.
C18_ErrorMeansNilServer ==
  (pc = "Idle" /\ ret.called /\ ret.err # NoErr) => ret.s = "nil"

\* C19: Start returns nothing but nil; a serve goroutine whose
\* ActivateAndServe has failed has ended the process, and when it failed
\* before confirming while Start was waiting, Start has not returned and
\* no value of Start reports the failure.
C19_StartReturnsNoError ==
  /\ startRet \in {"none", "nil"}
  /\ \A t \in Nets :
       task[t].pc = "failed" =>
         /\ proc = "exited"
         /\ (task[t].done = 0 /\ InStart) => startRet = "none"

C19_Witness ==
  /\ proc = "exited" /\ pc = "StartWait" /\ startRet = "none"
  /\ task["udp"].pc = "failed" /\ task["udp"].done = 0
  /\ task["tcp"].pc = "serving"

=============================================================================
